---- MODULE Spec2Model ----
(***************************************************************************)
(* Model of the FuzzySearch rate-limit queue of maps-api.ts: the client    *)
(* state (#queue, #timeout), the pending Node timers, the HTTP calls in    *)
(* flight and the promise handed to every caller of autoComplete().        *)
(***************************************************************************)
EXTENDS Integers, Sequences, FiniteSets, TLC

\* ------------------------------------------------------------------ bounds
\* number of autoComplete() calls made on one client
MaxReq == 3

Req == 1..MaxReq
\* the address arguments the callers pass to autoComplete()
Addresses == {"Test address", "Test address 1"}
\* address of a request that has not been submitted
NoAddress == ""

\* ------------------------------------------------------------- vocabulary
\* value of #queue when it is undefined, and when it holds an array
Unset == [set |-> FALSE, items |-> <<>>]
Queue(items) == [set |-> TRUE, items |-> items]
\* state of a promise that is neither resolved nor rejected
Pending == [kind |-> "pending", val |-> "none"]
\* what the HTTP transport and the schema validation can produce for one call
RawOutcomes == {"ok", "invalid", "status429", "failure"}

VARIABLES
    nextId,     \* number of autoComplete() calls made so far
    via,        \* via[r]: "run" when the r-th call ran at once, "queue" when it was pushed
    address,    \* address[r]: the address argument of the r-th call
    queue,      \* FuzzySearch.#queue: Unset or Queue(sequence of QueuedRequest)
    timeout,    \* FuzzySearch.#timeout: 0 (undefined) or the last timer handle
    timers,     \* handles of the setTimeout timers that are still pending
    inflight,   \* HTTP calls issued and not yet answered
    fut,        \* fut[r]: state of the promise returned by the r-th call
    calls,      \* calls[r]: number of axios.get calls made for request r
    resp,       \* resp[r]: raw outcomes of the calls made for r, in order
    enq,        \* enq[r]: handle in #timeout when r was put in the queue, 0 if never
    waveOf,     \* waveOf[r]: handle of the timer whose firing re-issued r, 0 if none
    racing,     \* pairs <<r1, r2>>: r1's first call got status 429 while r2's first call,
                \* issued before that answer, is still in flight
    dispatched, \* requests re-issued by the latest timer firing, in dispatch order
    aborted,    \* queued, unsettled requests whose caller has aborted the signal of its
                \* call options
    input,      \* arguments of the calls of an exported function, and how the
                \* axios.get of each call settles
    output      \* what the calls made so far returned or threw, or are awaiting

\* the state of a FuzzySearch client and of its callers
client == <<nextId, via, address, queue, timeout, timers, inflight, fut, calls, resp,
            enq, waveOf, racing, dispatched>>

vars == <<nextId, via, address, queue, timeout, timers, inflight, fut, calls, resp,
          enq, waveOf, racing, dispatched, aborted, input, output>>

\* input and output while no exported function has been called
NoCall == [fn |-> "none"]

\* ------------------------------------------------------------ pure helpers
\* Outcome of getAutoCompleteResults for a call with address a that the
\* transport answered with raw outcome raw
TooManyRequestsError == [kind |-> "rejected", val |-> "TooManyRequestsError"]

getAutoCompleteResults(a, raw) ==
    CASE raw = "ok" -> [kind |-> "resolved", val |-> a]
      [] raw = "invalid" -> [kind |-> "rejected", val |-> "ValiError"]
      [] raw = "status429" -> TooManyRequestsError
      [] OTHER -> [kind |-> "rejected", val |-> "AxiosError"]

\* createQueuedRequest that drops the address argument
createQueuedRequest_noAddress(a, r) == [address |-> NoAddress, req |-> r]

\* QueuedRequest: the address and the promise (named by its request) to settle
createQueuedRequest(a, r) == [address |-> a, req |-> r]

\* resolve/reject of a promise: only a pending promise changes state
Settle(f, v) == IF f = Pending THEN v ELSE f

\* the error dispose() rejects queued requests with
ClearingQueue == [kind |-> "rejected", val |-> "Clearing queue"]

\* requests held by a queue value
QueueReqs(q) == {q.items[i].req : i \in 1..Len(q.items)}

\* a drain loop that calls _runAutoComplete instead of getAutoCompleteResults
Call_viaRun(r, a, from) == [req |-> r, address |-> a, from |-> "run"]

\* an HTTP call for request r with address a, issued by _runAutoComplete
\* ("run") or by the timer callback ("drain")
Call(r, a, from) == [req |-> r, address |-> a, from |-> from]

\* ------------------------------------------------------------------- Init
Init ==
    /\ nextId = 0
    /\ via = [r \in Req |-> "none"]
    /\ address = [r \in Req |-> NoAddress]
    /\ queue = Unset
    /\ timeout = 0
    /\ timers = {}
    /\ inflight = {}
    /\ fut = [r \in Req |-> Pending]
    /\ calls = [r \in Req |-> 0]
    /\ resp = [r \in Req |-> <<>>]
    /\ enq = [r \in Req |-> 0]
    /\ waveOf = [r \in Req |-> 0]
    /\ racing = {}
    /\ dispatched = <<>>
    /\ aborted = {}
    /\ input = NoCall
    /\ output = NoCall

\* ---------------------------------------------------------------- actions
\* Array.prototype.unshift used in place of push
unshift(q, request) == Queue(<<request>> \o q.items)

\* Array.prototype.push on the queue
push(q, request) == Queue(Append(q.items, request))

\* _handleDelay that starts a new queue on every rate-limit error
handleDelayQueue_alwaysNew(q, request) == Queue(<<request>>)

\* queue after _handleDelay(request): created when unset, appended otherwise
handleDelayQueue(q, request) ==
    IF q = Unset THEN Queue(<<request>>) ELSE push(q, request)

\* autoComplete(address): run immediately when no queue is set, else push
autoComplete(a) ==
    /\ nextId < MaxReq
    /\ LET r == nextId + 1 IN
        /\ nextId' = r
        /\ address' = [address EXCEPT ![r] = a]
        /\ via' = [via EXCEPT ![r] = IF queue = Unset THEN "run" ELSE "queue"]
        /\ IF queue = Unset
              THEN /\ inflight' = inflight \cup {Call(r, a, "run")}
                   /\ calls' = [calls EXCEPT ![r] = @ + 1]
                   /\ UNCHANGED <<queue, enq>>
              ELSE /\ queue' = push(queue, createQueuedRequest(a, r))
                   /\ enq' = [enq EXCEPT ![r] = timeout]
                   /\ UNCHANGED <<inflight, calls>>
    /\ UNCHANGED <<timeout, timers, fut, resp, waveOf, racing, dispatched>>
    /\ UNCHANGED <<aborted, input, output>>

\* _runAutoComplete that delays the request after any error
isRecoverable_anyError(res) == res.kind = "rejected"

\* _runAutoComplete without its catch: no error is taken for a retry
isRecoverable_never(res) == FALSE

\* the error _runAutoComplete recovers from by delaying the request
isRecoverable(res) == res = TooManyRequestsError

\* the call issued by _runAutoComplete is answered
runAutoCompleteResponse(c, raw) ==
    /\ c \in inflight
    /\ c.from = "run"
    /\ LET r == c.req
           res == getAutoCompleteResults(c.address, raw) IN
        /\ inflight' = inflight \ {c}
        /\ resp' = [resp EXCEPT ![r] = Append(@, raw)]
        /\ IF isRecoverable(res)
              THEN /\ queue' = handleDelayQueue(queue, createQueuedRequest(c.address, r))
                   /\ IF queue = Unset
                         THEN /\ timeout' = timeout + 1
                              /\ timers' = timers \cup {timeout + 1}
                         ELSE UNCHANGED <<timeout, timers>>
                   /\ enq' = [enq EXCEPT ![r] = timeout']
                   /\ racing' = {p \in racing : p[2] # r} \cup
                         {<<r, d.req>> : d \in {e \in inflight : e.from = "run" /\ e # c}}
                   /\ UNCHANGED fut
              ELSE /\ fut' = [fut EXCEPT ![r] = Settle(@, res)]
                   /\ racing' = {p \in racing : p[2] # r}
                   /\ UNCHANGED <<queue, timeout, timers, enq>>
    /\ UNCHANGED <<nextId, via, address, calls, waveOf, dispatched>>
    /\ UNCHANGED <<aborted, input, output>>

\* a timer callback that leaves the drained requests in the queue
resetQueue_keep(q) == q

\* a timer callback that resets the queue to an empty array
resetQueue_empty(q) == Queue(<<>>)

\* #queue after the timer callback ("Reset the queue")
resetQueue(q) == Unset

\* a drain that walks the queue from its last request to its first
dispatchOrder_reversed(q) == [i \in 1..Len(q.items) |-> q.items[Len(q.items) + 1 - i].req]

\* queue.map(async (req) => ...): the requests in the order their
\* getAutoCompleteResults calls are made
dispatchOrder(q) == [i \in 1..Len(q.items) |-> q.items[i].req]

\* the setTimeout callback of _handleDelay runs for timer h
timerCallback(h) ==
    /\ h \in timers
    /\ timers' = timers \ {h}
    /\ IF queue # Unset
          THEN /\ inflight' = inflight \cup
                     {Call(queue.items[i].req, queue.items[i].address, "drain") : i \in 1..Len(queue.items)}
               /\ calls' = [r \in Req |->
                     calls[r] + Cardinality({i \in 1..Len(queue.items) : queue.items[i].req = r})]
               /\ waveOf' = [r \in Req |-> IF r \in QueueReqs(queue) THEN h ELSE waveOf[r]]
               /\ dispatched' = dispatchOrder(queue)
               /\ queue' = resetQueue(queue)
               /\ aborted' = aborted \ QueueReqs(queue)
          ELSE UNCHANGED <<inflight, calls, waveOf, dispatched, queue, aborted>>
    /\ UNCHANGED <<nextId, via, address, timeout, fut, resp, enq, racing>>
    /\ UNCHANGED <<input, output>>

\* a drain that settles the whole wave with the first failure, as awaiting
\* Promise.all of the calls would
drainSettle_all(f, r, res) ==
    [x \in Req |->
        IF x = r \/ (res.kind = "rejected" /\ waveOf[x] = waveOf[r])
           THEN Settle(f[x], res) ELSE f[x]]

\* a drain that hands each outcome to the oldest request of the wave that is
\* still pending, whichever call it answers
drainSettle_byArrival(f, r, res) ==
    LET w == {x \in Req : waveOf[x] = waveOf[r] /\ f[x] = Pending}
        t == IF w = {} THEN r ELSE CHOOSE x \in w : \A y \in w : x <= y
    IN  [f EXCEPT ![t] = Settle(@, res)]

\* promises after the drain loop got the outcome res of the call made for r
drainSettle(f, r, res) == [f EXCEPT ![r] = Settle(@, res)]

\* a call re-issued by the timer callback is answered
drainResponse(c, raw) ==
    /\ c \in inflight
    /\ c.from = "drain"
    /\ LET r == c.req
           res == getAutoCompleteResults(c.address, raw) IN
        /\ inflight' = inflight \ {c}
        /\ resp' = [resp EXCEPT ![r] = Append(@, raw)]
        /\ fut' = drainSettle(fut, r, res)
    /\ UNCHANGED <<nextId, via, address, queue, timeout, timers, calls, enq, waveOf,
                   racing, dispatched>>
    /\ UNCHANGED <<aborted, input, output>>

\* promises after dispose(): every request of the queue is rejected
disposeFut(q, f) ==
    [r \in Req |-> IF r \in QueueReqs(q) THEN Settle(f[r], ClearingQueue) ELSE f[r]]

\* dispose() that shifts the first request out of the queue
disposeQueue_shift(q) == IF q = Unset THEN q ELSE Queue(SubSeq(q.items, 2, Len(q.items)))

\* #queue after dispose(): the field is not assigned
disposeQueue(q) == q

\* dispose() without the clearTimeout call
disposeTimers_noClear(t, h) == t

\* pending timers after dispose(): clearTimeout(this.#timeout)
disposeTimers(t, h) == t \ {h}

dispose ==
    /\ fut' = disposeFut(queue, fut)
    /\ queue' = disposeQueue(queue)
    /\ timers' = disposeTimers(timers, timeout)
    /\ aborted' = aborted \ QueueReqs(queue)
    /\ UNCHANGED <<nextId, via, address, timeout, inflight, calls, resp, enq, waveOf,
                   racing, dispatched>>
    /\ UNCHANGED <<input, output>>

Next ==
    \/ \E a \in Addresses : autoComplete(a)
    \/ \E c \in inflight, raw \in RawOutcomes : runAutoCompleteResponse(c, raw)
    \/ \E h \in timers : timerCallback(h)
    \/ \E c \in inflight, raw \in RawOutcomes : drainResponse(c, raw)
    \/ dispose

Spec == Init /\ [][Next]_vars

\* every HTTP call is eventually answered and a pending timer eventually fires
Fairness ==
    /\ WF_vars(\E c \in inflight, raw \in RawOutcomes : runAutoCompleteResponse(c, raw))
    /\ WF_vars(\E c \in inflight, raw \in RawOutcomes : drainResponse(c, raw))
    /\ WF_vars(\E h \in timers : timerCallback(h))

FairSpec == Spec /\ Fairness

TypeOK ==
    /\ nextId \in 0..MaxReq
    /\ timers \subseteq 1..MaxReq
    /\ \A r \in Req : calls[r] \in 0..2

\* ------------------------------------------------------- state vocabulary
\* the two states of the rate-limit queue
Idle == queue = Unset
Draining == queue # Unset /\ timers # {}

\* the queue as it is left by dispose(): set, with its timer cancelled
Disposed == queue # Unset /\ timers = {}

RECURSIVE SumCalls(_)
SumCalls(S) ==
    IF S = {} THEN 0
    ELSE LET r == CHOOSE x \in S : TRUE IN calls[r] + SumCalls(S \ {r})

\* number of axios.get calls made so far
TotalCalls == SumCalls(Req)

\* every call made for r has been answered
Answered(r) == Len(resp[r]) = calls[r]

\* ------------------------------------------------------------------ C1
\* C1: a request whose first lookup failed with status 429 and whose
\* re-issued lookup succeeded is resolved with the value of the re-issued
\* lookup, and exactly 2 underlying calls were made for it.
C1_RetrySuccess ==
    \A r \in Req :
        resp[r] = <<"status429", "ok">>
            => /\ fut[r] = getAutoCompleteResults(address[r], "ok")
               /\ fut[r].kind = "resolved"
               /\ fut[r].val = address[r]
               /\ calls[r] = 2

C1_Witness ==
    \E r \in Req : resp[r] = <<"status429", "ok">> /\ via[r] = "run" /\ waveOf[r] # 0

\* ------------------------------------------------------------------ C2
\* C2 as stated: while Draining the queue is in the order of submission and
\* every queued promise is pending.
C2_Original ==
    Draining =>
        /\ \A i, j \in 1..Len(queue.items) : i < j => queue.items[i].req < queue.items[j].req
        /\ \A r \in QueueReqs(queue) : fut[r] = Pending

\* C2 amended, step part: an autoComplete() made while Draining pushes its
\* request at the end of the existing queue, issues no call, touches no timer
\* and returns a pending promise.
C2_SubmitStep ==
    \A a \in Addresses :
        (Draining /\ autoComplete(a)) =>
            /\ queue' = Queue(Append(queue.items, [address |-> a, req |-> nextId + 1]))
            /\ inflight' = inflight
            /\ calls' = calls
            /\ timers' = timers /\ timeout' = timeout
            /\ fut'[nextId + 1] = Pending

\* C2 amended, state part: while Draining every queued promise is pending and
\* has had no call since it was queued, and the requests submitted while the
\* queue was set stand in their call order (a request submitted in Idle joins
\* when its 429 arrives, so it may stand behind later submissions).
C2_QueueState ==
    Draining =>
        /\ \A r \in QueueReqs(queue) :
              /\ fut[r] = Pending
              /\ calls[r] = (IF via[r] = "run" THEN 1 ELSE 0)
              /\ \A c \in inflight : c.req # r
        /\ \A i, j \in 1..Len(queue.items) :
              (i < j /\ via[queue.items[i].req] = "queue" /\ via[queue.items[j].req] = "queue")
                  => queue.items[i].req < queue.items[j].req
        /\ via[queue.items[1].req] = "run"

\* C2 amended: queue order is the order of queueing.
C2_Amended == [](C2_QueueState) /\ [][C2_SubmitStep]_vars

C2_Witness ==
    /\ Draining
    /\ Len(queue.items) >= 3
    /\ via[queue.items[2].req] = "queue"
    /\ via[queue.items[3].req] = "queue"

\* ------------------------------------------------------------------ C3
\* C3, step part: when the timer fires every request of the queue gets exactly
\* one more call, made with its own address, no other request gets one, and
\* the queue is unset.
C3_TimerStep ==
    \A h \in timers :
        timerCallback(h) =>
            /\ queue' = Unset
            /\ \A r \in Req :
                  calls'[r] = calls[r] + (IF r \in QueueReqs(queue) THEN 1 ELSE 0)
            /\ \A r \in QueueReqs(queue) :
                  Call(r, address[r], "drain") \in inflight'
            /\ Cardinality(inflight') = Cardinality(inflight) + Len(queue.items)

\* C3, state part: a re-issued request is re-issued once, its promise is
\* settled with the outcome of its own re-issued call, and one rate-limited
\* request plus n queued ones make 1 + (n + 1) calls in total.
C3_DrainState ==
    /\ \A r \in Req :
          waveOf[r] # 0 =>
              /\ calls[r] = (IF via[r] = "run" THEN 2 ELSE 1)
              /\ r \notin QueueReqs(queue)
              /\ IF Answered(r)
                    THEN fut[r] = getAutoCompleteResults(address[r], resp[r][Len(resp[r])])
                    ELSE fut[r] = Pending
    /\ LET A == {r \in Req : via[r] = "run"}
           Q == {r \in Req : via[r] = "queue"}
       IN (Cardinality(A) = 1 /\ \A r \in A \cup Q : waveOf[r] # 0)
              => TotalCalls = 1 + (Cardinality(Q) + 1)

\* C3: the drain re-issues every queued request once and unsets the queue.
C3_Drain == [](C3_DrainState) /\ [][C3_TimerStep]_vars

C3_Witness ==
    /\ Cardinality({r \in Req : via[r] = "run"}) = 1
    /\ Cardinality({r \in Req : via[r] = "queue"}) = 2
    /\ \A r \in Req : waveOf[r] # 0 /\ Answered(r) /\ fut[r].kind = "resolved"
    /\ queue = Unset

\* ------------------------------------------------------------------ C4
\* C4: when every HTTP call is answered and a pending timer fires, the promise
\* of every submitted request is eventually settled, and a settled promise
\* never changes again.
C4_NoRequestLost ==
    /\ \A r \in Req : (via[r] # "none") ~> (fut[r] # Pending)
    /\ [][\A r \in Req : fut[r] # Pending => fut'[r] = fut[r]]_vars

\* ------------------------------------------------------------------ C5
\* C5, state part: no request ever gets more than 2 calls, and a request
\* whose two lookups both failed with status 429 is rejected with
\* TooManyRequestsError after exactly 2 calls and is not queued again.
C5_RetryState ==
    \A r \in Req :
        /\ calls[r] <= 2
        /\ resp[r] = <<"status429", "status429">>
              => /\ fut[r] = TooManyRequestsError
                 /\ calls[r] = 2
                 /\ r \notin QueueReqs(queue)

\* C5, step part: the 429 answer to a re-issued call starts no timer and
\* leaves the queue alone.
C5_RetryStep ==
    \A r \in Req :
        (Len(resp[r]) = 1 /\ resp'[r] = <<"status429", "status429">>)
            => /\ timers' = timers
               /\ timeout' = timeout
               /\ queue' = queue
               /\ fut'[r] = TooManyRequestsError

\* C5: a second 429 is terminal, there is one retry and never more.
C5_OneRetry == [](C5_RetryState) /\ [][C5_RetryStep]_vars

C5_Witness ==
    \E r \in Req :
        /\ resp[r] = <<"status429", "status429">>
        /\ via[r] = "run"
        /\ fut[r] = TooManyRequestsError

\* ------------------------------------------------------------------ C6
\* the timer whose handle is stored in #timeout is pending
TimerSet == timeout \in timers

\* C6: the queue is unset exactly when no timer is set.
C6_QueueIffTimer == (queue = Unset) <=> ~TimerSet

\* ------------------------------------------------------------------ C7
\* C7, step part: dispose() leaves every request of the queue rejected with
\* the disposal error and leaves no pending timer.
C7_DisposeStep ==
    dispose =>
        /\ \A r \in QueueReqs(queue) : fut'[r] = ClearingQueue
        /\ timers' = {}

\* C7, step part: a request rejected by dispose() never gets another call.
C7_NoReissue ==
    \A r \in Req :
        fut[r] = ClearingQueue
            => /\ calls'[r] = calls[r]
               /\ \A c \in inflight' : c.req = r => c \in inflight

\* C7: dispose() rejects the queued requests, cancels the timer, and none of
\* them is re-issued afterwards.
C7_Dispose == [][C7_DisposeStep]_vars /\ [][C7_NoReissue]_vars

C7_Witness ==
    /\ Disposed
    /\ Cardinality({r \in QueueReqs(queue) : fut[r] = ClearingQueue}) >= 2
    /\ \E r \in QueueReqs(queue) : fut[r] = ClearingQueue /\ via[r] = "run" /\ calls[r] = 1

\* ------------------------------------------------------------------ C8
\* C8: dispose() leaves the queue unset, and an autoComplete() made when no
\* timer is pending issues its lookup at once.
C8_DisposeToIdle ==
    /\ [][dispose => queue' = Unset]_vars
    /\ [][\A a \in Addresses :
            (timers = {} /\ autoComplete(a)) => calls'[nextId + 1] = 1]_vars

\* ------------------------------------------------------------------ C9
\* C9: dispose() in Idle changes nothing, a second dispose() changes nothing
\* the first did not, and dispose() never changes a settled promise.
C9_DisposeIdempotent ==
    LET f1 == disposeFut(queue, fut)
        q1 == disposeQueue(queue)
        t1 == disposeTimers(timers, timeout)
    IN /\ Idle => (f1 = fut /\ q1 = queue /\ t1 = timers)
       /\ disposeFut(q1, f1) = f1
       /\ disposeQueue(q1) = q1
       /\ disposeTimers(t1, timeout) = t1
       /\ \A r \in Req : fut[r] # Pending => f1[r] = fut[r]

C9_Witness ==
    /\ Disposed
    /\ \E r \in QueueReqs(queue) : fut[r] = ClearingQueue
    /\ \E r \in QueueReqs(queue) : fut[r] = Pending
    /\ inflight # {}

\* ----------------------------------------------------------------- C10
\* request r gets the 429 answer to its first call in this step
First429(r) == via[r] = "run" /\ resp[r] = <<>> /\ resp'[r] = <<"status429">>

C10_SecondStep ==
    \A p \in racing :
        First429(p[2]) =>
            LET request == [address |-> address[p[2]], req |-> p[2]] IN
            IF queue # Unset
               THEN /\ queue' = Queue(Append(queue.items, request))
                    /\ enq'[p[2]] = timeout
                    /\ timers' = timers
                    /\ timeout' = timeout
               ELSE /\ waveOf[p[1]] # 0
                    /\ queue' = Queue(<<request>>)
                    /\ timeout' = timeout + 1
                    /\ timers' = timers \cup {timeout'}
                    /\ enq'[p[2]] = timeout'

\* C10 amended, state part: at most one timer is pending, it is the one in
\* #timeout, and requests put in the same queue are re-issued by the same
\* timer firing or not at all.
C10_OneQueue ==
    /\ Cardinality(timers) <= 1
    /\ timers \subseteq {timeout}
    /\ \A r1, r2 \in Req :
          (enq[r1] # 0 /\ enq[r1] = enq[r2])
              => /\ waveOf[r1] = waveOf[r2]
                 /\ waveOf[r1] \in {0, enq[r1]}

LastOutcome(r) == getAutoCompleteResults(address[r], resp[r][Len(resp[r])])

\* C11: when the re-issued call of a request failed, every other request of
\* the same drain wave has still been re-issued once, and its promise is
\* pending until its own call is answered and then holds its own outcome.
C11_SiblingsState ==
    \A r1, r2 \in Req :
        (/\ r1 # r2
         /\ waveOf[r1] # 0
         /\ waveOf[r1] = waveOf[r2]
         /\ Answered(r1)
         /\ fut[r1].kind = "rejected")
            => /\ fut[r1] = LastOutcome(r1)
               /\ calls[r2] = (IF via[r2] = "run" THEN 2 ELSE 1)
               /\ IF Answered(r2)
                     THEN fut[r2] = LastOutcome(r2)
                     ELSE /\ fut[r2] = Pending
                          /\ Call(r2, address[r2], "drain") \in inflight

\* C11: the drain wave's requests are settled independently in every reachable state
C11_SiblingsIndependent == []C11_SiblingsState

C11_Witness ==
    \E r1, r2 \in Req :
        /\ r1 # r2
        /\ waveOf[r1] # 0
        /\ waveOf[r1] = waveOf[r2]
        /\ Answered(r1) /\ Answered(r2)
        /\ fut[r1].kind = "rejected"
        /\ fut[r2].kind = "resolved"

\* ----------------------------------------------------------------- C12
\* request r gets, in this step, an answer to its first call that is not a
\* rate limit
FirstOther(r) ==
    /\ via[r] = "run"
    /\ resp[r] = <<>>
    /\ Len(resp'[r]) = 1
    /\ resp'[r][1] # "status429"

\* C12, step part: such an answer settles the promise with that outcome and
\* changes neither the queue nor the timer, so an Idle client stays Idle.
C12_DirectStep ==
    \A r \in Req :
        FirstOther(r) =>
            /\ fut'[r] = getAutoCompleteResults(address[r], resp'[r][1])
            /\ fut'[r] # Pending
            /\ queue' = queue
            /\ timers' = timers
            /\ timeout' = timeout
            /\ Idle => Idle'
            /\ calls'[r] = 1

\* C12, state part: a request run in Idle whose first answer is not a rate
\* limit had exactly 1 call, holds that outcome, and was never queued or
\* re-issued.
C12_DirectState ==
    \A r \in Req :
        (via[r] = "run" /\ resp[r] # <<>> /\ resp[r][1] # "status429")
            => /\ calls[r] = 1
               /\ Len(resp[r]) = 1
               /\ fut[r] = getAutoCompleteResults(address[r], resp[r][1])
               /\ enq[r] = 0
               /\ waveOf[r] = 0
               /\ r \notin QueueReqs(queue)

\* C12: success and non-rate-limit failures are final after 1 call.
C12_DirectOutcome == [](C12_DirectState) /\ [][C12_DirectStep]_vars

C12_Witness ==
    /\ \E r \in Req : via[r] = "run" /\ resp[r] = <<"invalid">> /\ fut[r].val = "ValiError"
    /\ \E r \in Req : via[r] = "run" /\ resp[r] = <<"failure">> /\ fut[r].val = "AxiosError"
    /\ \E r \in Req : via[r] = "run" /\ resp[r] = <<"ok">> /\ fut[r].kind = "resolved"
    /\ Idle

\* ----------------------------------------------------------------- C13
\* C13 as stated: a promise rejected with TooManyRequestsError belongs to a
\* request whose second call also hit the rate limit.
C13_Original ==
    \A r \in Req :
        fut[r] = TooManyRequestsError
            => /\ calls[r] = 2
               /\ resp[r] = <<"status429", "status429">>

\* C13 amended: a promise is rejected with TooManyRequestsError only by the
\* call a drain wave made for it: the second call, after one recovery, of a
\* request run in Idle, or the first and only call of a request that was
\* pushed onto the queue.
C13_DrainOnly ==
    \A r \in Req :
        fut[r] = TooManyRequestsError
            => /\ waveOf[r] # 0
               /\ Answered(r)
               /\ \/ /\ via[r] = "run"
                     /\ calls[r] = 2
                     /\ resp[r] = <<"status429", "status429">>
                  \/ /\ via[r] = "queue"
                     /\ calls[r] = 1
                     /\ resp[r] = <<"status429">>

\* C13 amended: TooManyRequestsError comes from the drain wave's call only, in every reachable state
C13_Amended == []C13_DrainOnly

C13_Witness ==
    /\ \E r \in Req : fut[r] = TooManyRequestsError /\ via[r] = "run"
    /\ \E r \in Req : fut[r] = TooManyRequestsError /\ via[r] = "queue"

\* ----------------------------------------------------------------- C14
\* the timer h is no longer pending because it fired (dispose() leaves the
\* queue set with the cancelled handle in #timeout)
Fired(h) == h \in 1..timeout /\ h \notin timers /\ ~(queue # Unset /\ timeout = h)

\* C14: every timer was started by the 429 answer to a request run in Idle,
\* never by a submission; while Draining the one pending timer is the one in
\* #timeout and every queued request waits for it; every request queued
\* before a timer fired was re-issued by that firing.
C14_TimerState ==
    /\ \A h \in 1..timeout :
          \E r \in Req : via[r] = "run" /\ enq[r] = h /\ resp[r][1] = "status429"
    /\ Draining =>
          /\ timers = {timeout}
          /\ \A r \in QueueReqs(queue) : enq[r] = timeout
    /\ \A r \in Req :
          /\ (enq[r] # 0 /\ enq[r] \in timers)
                => (r \in QueueReqs(queue) /\ waveOf[r] = 0)
          /\ (enq[r] # 0 /\ Fired(enq[r])) => waveOf[r] = enq[r]
          /\ waveOf[r] # 0 => waveOf[r] = enq[r]

\* C14: one timer per delay, started by a 429 answer, in every reachable state
C14_OneTimerPerDelay == []C14_TimerState

C14_Witness ==
    /\ timeout = 1
    /\ Fired(1)
    /\ Cardinality({r \in Req : via[r] = "queue" /\ waveOf[r] = 1}) >= 2

\* ----------------------------------------------------------------- C16
\* requests whose re-issued call is in flight
InDrainFlight == {c.req : c \in {d \in inflight : d.from = "drain"}}

\* C16: a dispose() called in this state changes no settled promise, and it
\* touches no request whose re-issued call is in flight (the queue no longer
\* holds it), so the answer to that call is the only settlement of its
\* promise; dispose() changes pending promises of queued requests only and
\* leaves the calls in flight alone.
C16_DisposeState ==
    LET f1 == disposeFut(queue, fut) IN
    /\ \A r \in Req : fut[r] # Pending => f1[r] = fut[r]
    /\ \A r \in InDrainFlight :
          /\ r \notin QueueReqs(queue)
          /\ fut[r] = Pending
          /\ f1[r] = Pending
    /\ \A r \in Req :
          f1[r] # fut[r] => (fut[r] = Pending /\ r \in QueueReqs(queue) /\ f1[r] = ClearingQueue)
    /\ (InDrainFlight # {} /\ Idle) =>
          (f1 = fut /\ disposeQueue(queue) = queue /\ disposeTimers(timers, timeout) = timers)

\* C16: dispose() is safe during a drain in every reachable state
C16_DisposeDuringDrain == []C16_DisposeState

C16_Witness ==
    /\ Cardinality(InDrainFlight) >= 2
    /\ Idle
    /\ \E r \in Req : waveOf[r] # 0 /\ Answered(r) /\ fut[r].kind = "resolved"

\* ------------------------------------------------- cancellation by signal
\* The caller of a queued request aborts the AbortSignal it passed in its call
\* options. The options are only stored in the QueuedRequest and handed to
\* axios.get by the drain loop: no code of the client listens to the signal.
cancel(r) ==
    /\ r \in QueueReqs(queue)
    /\ fut[r] = Pending
    /\ r \notin aborted
    /\ aborted' = aborted \cup {r}
    /\ UNCHANGED client
    /\ UNCHANGED <<input, output>>

NextCancel ==
    \/ Next
    \/ \E r \in Req : cancel(r)

SpecCancel == Init /\ [][NextCancel]_vars

\* C15 (as stated): once a queued request has been cancelled through its
\* signal, its future is rejected.
C15_Original ==
    \A r \in aborted : fut[r].kind = "rejected"

\* C15 (amended): cancelling a queued request settles nothing by itself. As
\* long as the queue it sits in has neither been drained nor disposed, the
\* cancelled request is still queued, its future is still pending and no
\* lookup is in flight for it; every other request of that queue is pending
\* as well, or was rejected by an earlier dispose(). Only the drain (which
\* re-issues the request with its own options) or dispose() settles it.
C15_Amended ==
    \A r \in aborted :
        /\ r \in QueueReqs(queue)
        /\ fut[r] = Pending
        /\ Answered(r)
        /\ ~\E c \in inflight : c.req = r
        /\ \A s \in QueueReqs(queue) : fut[s] \in {Pending, ClearingQueue}

C15_Witness ==
    /\ Draining
    /\ \E r \in aborted : \E s \in QueueReqs(queue) \ aborted :
          /\ fut[r] = Pending
          /\ fut[s] = Pending
          /\ via[r] = "run"
          /\ via[s] = "queue"

\* ------------------------------------------ exported functions: getParams
\* limits tried are the integers (1 - LimitSlack)..(MAX_LIMIT + LimitSlack)
LimitSlack == 3

MAX_LIMIT == 100

COUNTRY_CODE == "AU"

\* an optional string: undefined, or Str(s)
NoStr == [set |-> FALSE, val |-> "undefined"]
Str(s) == [set |-> TRUE, val |-> s]

\* an optional number: undefined, or Num(n)
NoNum == [set |-> FALSE, val |-> 0]
Num(n) == [set |-> TRUE, val |-> n]

Min(a, b) == IF a <= b THEN a ELSE b
Max(a, b) == IF a >= b THEN a ELSE b

\* values of options.apiKey and of process.env.TOMTOM_API_KEY
ApiKeys == {NoStr, Str(""), Str("test")}
EnvKeys == {NoStr, Str(""), Str("env-test")}

Limits == {NoNum} \cup {Num(n) : n \in (1 - LimitSlack)..(MAX_LIMIT + LimitSlack)}

GetParamsInputs ==
    {[fn |-> "getParams", options |-> [apiKey |-> k, limit |-> l], env |-> e] :
        k \in ApiKeys, l \in Limits, e \in EnvKeys}

MissingKey == "Missing API key or TOMTOM_API_KEY environment variable"

\* options.apiKey ?? process.env.TOMTOM_API_KEY: the right operand is taken
\* only when the left one is null or undefined
coalesce(k, e) == IF k.set THEN k ELSE e

\* !key
falsy(s) == ~s.set \/ s.val = ""

\* the limit parameter, without the lower clamp
limitOf_noFloor(l) == IF ~l.set THEN MAX_LIMIT ELSE Min(l.val, MAX_LIMIT)

\* the limit parameter
limitOf(l) == IF ~l.set THEN MAX_LIMIT ELSE Min(Max(1, l.val), MAX_LIMIT)

getParams(options, env) ==
    LET key == coalesce(options.apiKey, env)
    IN  IF falsy(key)
        THEN [fn |-> "getParams", kind |-> "threw", error |-> MissingKey]
        ELSE [fn |-> "getParams", kind |-> "returned",
              params |-> [key |-> key.val,
                          countrySet |-> COUNTRY_CODE,
                          limit |-> limitOf(options.limit)]]

\* -------------- exported functions: toAutoCompleteResult, getAutoCompleteResults
\* longest results array of a response payload
MaxResults == 2

SEARCH_URL == "https://api.tomtom.com/search/2/search"

Ids == {"test1", "test2"}
StreetNumbers == {NoStr, Str(""), Str("12")}
Municipalities == {NoStr, Str("Sydney")}
\* "AUS" is not a 2 letters code
CountryCodes == {"AU", "AUS"}

freeformOf(id) == IF id = "test1" THEN "First test street" ELSE "Second test street"

\* result records of a response payload, with the fields the library reads
RawResults ==
    {[id |-> i,
      address |-> [streetNumber |-> n,
                   countryCode |-> c,
                   country |-> "Australia",
                   freeformAddress |-> freeformOf(i),
                   municipality |-> m]] :
        i \in Ids, n \in StreetNumbers, c \in CountryCodes, m \in Municipalities}

SeqsUpTo(S, n) == UNION {[1..k -> S] : k \in 0..n}

\* response payloads: a summary block that is complete or empty, and results
Payloads ==
    {[summary |-> s, results |-> rs] :
        s \in {"complete", "empty"}, rs \in SeqsUpTo(RawResults, MaxResults)}

\* String.length of the country codes
length(s) == IF s = "AU" THEN 2 ELSE 3

\* the response of a rejected request, if any
NoResponse == [set |-> FALSE, status |-> 0]
Response(status) == [set |-> TRUE, status |-> status]

\* a ValiError lists the parts of the payload that failed: 0 for the summary
\* block, i for the i-th result
ValiError(issues) == [name |-> "ValiError", issues |-> issues, response |-> NoResponse]

NewTooManyRequestsError ==
    [name |-> "TooManyRequestsError", message |-> "Too many requests", response |-> NoResponse]

\* values axios.get rejects with: an AxiosError with or without a response, or
\* any other error
Faults ==
    {[name |-> "AxiosError", message |-> "Failed", response |-> rsp] :
        rsp \in {NoResponse, Response(400), Response(429), Response(500)}}
    \cup {[name |-> "Error", message |-> "Failed", response |-> NoResponse]}

\* how axios.get settles: with a response carrying data, or with a fault
Replies ==
    {[ok |-> TRUE, data |-> d] : d \in Payloads}
    \cup {[ok |-> FALSE, error |-> e] : e \in Faults}

validResult(result) == length(result.address.countryCode) = 2

parseResponse(data) ==
    LET issues == (IF data.summary = "complete" THEN {} ELSE {0})
                  \cup {i \in 1..Len(data.results) : ~validResult(data.results[i])}
    IN  IF issues = {}
        THEN [ok |-> TRUE, results |-> data.results]
        ELSE [ok |-> FALSE, error |-> ValiError(issues)]

\* a mapping that puts an empty string where the record has no street number
toAutoCompleteResult_emptyDefault(result) ==
    [placeId |-> result.id,
     streetNumber |-> IF result.address.streetNumber.set
                      THEN result.address.streetNumber ELSE Str(""),
     countryCode |-> result.address.countryCode,
     country |-> result.address.country,
     freeformAddress |-> result.address.freeformAddress,
     municipality |-> result.address.municipality]

toAutoCompleteResult(result) ==
    [placeId |-> result.id,
     streetNumber |-> result.address.streetNumber,
     countryCode |-> result.address.countryCode,
     country |-> result.address.country,
     freeformAddress |-> result.address.freeformAddress,
     municipality |-> result.address.municipality]

\* Array.prototype.map(toAutoCompleteResult)
mapResults(results) == [i \in 1..Len(results) |-> toAutoCompleteResult(results[i])]

encodeURIComponent(a) ==
    IF a = "Test address" THEN "Test%20address" ELSE "Test%20address%201"

\* a catch block that takes every response status for the rate limit
catchError_anyStatus(err) ==
    IF err.name = "ValiError" THEN err
    ELSE IF err.response.set THEN NewTooManyRequestsError
    ELSE err

\* the catch block: what the function rejects with for the caught value err
catchError(err) ==
    IF err.name = "ValiError" THEN err
    ELSE IF err.response.set /\ err.response.status = 429 THEN NewTooManyRequestsError
    ELSE err

\* getAutoCompleteResults(params, address) up to its await: the address is
\* encoded, axios.get is called once and the returned promise is pending
getAutoCompleteResultsCall(params, a) ==
    [kind |-> "pending",
     requests |-> <<[url |-> <<SEARCH_URL, encodeURIComponent(a), ".json">>,
                     params |-> params]>>]

\* the rest of getAutoCompleteResults(params, address), run when its
\* axios.get settles as reply
getAutoCompleteResultsOn(params, a, reply) ==
    LET requests == getAutoCompleteResultsCall(params, a).requests
        parsed == parseResponse(reply.data)
    IN  IF reply.ok /\ parsed.ok
        THEN [kind |-> "resolved",
              results |-> mapResults(parsed.results), requests |-> requests]
        ELSE [kind |-> "rejected",
              error |-> catchError(IF reply.ok THEN parsed.error ELSE reply.error),
              requests |-> requests]

TestParams == getParams([apiKey |-> Str("test"), limit |-> NoNum], NoStr).params

ToResultInputs ==
    {[fn |-> "toAutoCompleteResult", result |-> r] : r \in {x \in RawResults : validResult(x)}}

\* replies with at most one result
ShortReplies == {y \in Replies : y.ok => Len(y.data.results) <= 1}

\* the calls of getAutoCompleteResults a caller makes, in the order it makes
\* them, each with the way its axios.get will settle: one call, or two calls
\* for different addresses with short replies
LookupCalls ==
    {<<[address |-> a, reply |-> y]>> : a \in Addresses, y \in Replies}
    \cup {<<[address |-> a, reply |-> y], [address |-> b, reply |-> z]>> :
            a \in Addresses, y \in ShortReplies, b \in Addresses, z \in ShortReplies}

LookupInputs ==
    {[fn |-> "getAutoCompleteResults", params |-> TestParams, calls |-> cs] :
        cs \in {c \in LookupCalls : Len(c) = 2 => c[1].address # c[2].address}}

\* the calls of getAutoCompleteResults made so far, in the order of the calls
Issued ==
    IF input.fn = "getAutoCompleteResults" /\ output # NoCall THEN output.calls ELSE <<>>

\* a call of an exported function on given arguments, the client left as built
InitFn ==
    /\ nextId = 0
    /\ via = [r \in Req |-> "none"]
    /\ address = [r \in Req |-> NoAddress]
    /\ queue = Unset
    /\ timeout = 0
    /\ timers = {}
    /\ inflight = {}
    /\ fut = [r \in Req |-> Pending]
    /\ calls = [r \in Req |-> 0]
    /\ resp = [r \in Req |-> <<>>]
    /\ enq = [r \in Req |-> 0]
    /\ waveOf = [r \in Req |-> 0]
    /\ racing = {}
    /\ dispatched = <<>>
    /\ aborted = {}
    /\ input \in GetParamsInputs \cup ToResultInputs \cup LookupInputs
    /\ output = NoCall

callGetParams ==
    /\ input.fn = "getParams"
    /\ output = NoCall
    /\ output' = getParams(input.options, input.env)
    /\ UNCHANGED client
    /\ UNCHANGED <<aborted, input>>

callToAutoCompleteResult ==
    /\ input.fn = "toAutoCompleteResult"
    /\ output = NoCall
    /\ output' = [fn |-> "toAutoCompleteResult", result |-> toAutoCompleteResult(input.result)]
    /\ UNCHANGED client
    /\ UNCHANGED <<aborted, input>>

\* the caller makes its next call of getAutoCompleteResults: the function runs
\* up to its await and returns a pending promise
callGetAutoCompleteResults ==
    /\ input.fn = "getAutoCompleteResults"
    /\ Len(Issued) < Len(input.calls)
    /\ output' = [fn |-> "getAutoCompleteResults",
                  calls |-> Append(Issued,
                                   getAutoCompleteResultsCall(
                                       input.params,
                                       input.calls[Len(Issued) + 1].address))]
    /\ UNCHANGED client
    /\ UNCHANGED <<aborted, input>>

\* axios.get settles for the i-th call: the function resumes after its await
\* and settles the promise it returned
getAutoCompleteResultsResponse(i) ==
    /\ input.fn = "getAutoCompleteResults"
    /\ i \in 1..Len(Issued)
    /\ output.calls[i].kind = "pending"
    /\ output' = [output EXCEPT !.calls[i] =
                      getAutoCompleteResultsOn(input.params,
                                               input.calls[i].address,
                                               input.calls[i].reply)]
    /\ UNCHANGED client
    /\ UNCHANGED <<aborted, input>>

NextFn ==
    \/ callGetParams
    \/ callToAutoCompleteResult
    \/ callGetAutoCompleteResults
    \/ \E i \in 1..Len(Issued) : getAutoCompleteResultsResponse(i)

SpecFn == InitFn /\ [][NextFn]_vars

\* ------------------------------------------------------ claims C17 to C20
C17_NonEmpty(s) == s.set /\ s.val # ""

\* C17: getParams throws exactly when neither options.apiKey nor the
\* environment variable is a non-empty string; otherwise the key is the
\* non-empty option if there is one, else the non-empty environment variable.
C17_KeyResolution ==
    output.fn = "getParams" =>
        LET k == input.options.apiKey
            e == input.env
        IN  /\ (output.kind = "threw") <=> (~C17_NonEmpty(k) /\ ~C17_NonEmpty(e))
            /\ C17_NonEmpty(k) => (output.kind = "returned" /\ output.params.key = k.val)
            /\ (~C17_NonEmpty(k) /\ C17_NonEmpty(e)) =>
                  (output.kind = "returned" /\ output.params.key = e.val)

\* C18: the built limit is 1 for an input below 1, 100 for an input above 100,
\* the input itself for an input in 1..100 and 100 when no limit is given, so
\* it is always in 1..100.
C18_LimitClamp ==
    (output.fn = "getParams" /\ output.kind = "returned") =>
        LET l == input.options.limit
            built == output.params.limit
        IN  /\ built \in 1..100
            /\ ~l.set => built = 100
            /\ (l.set /\ l.val < 1) => built = 1
            /\ (l.set /\ l.val > 100) => built = 100
            /\ (l.set /\ l.val \in 1..100) => built = l.val

C18_Witness ==
    /\ output.fn = "getParams"
    /\ output.kind = "returned"
    /\ input.options.limit.set
    /\ input.options.limit.val < 0
    /\ output.params.limit = 1

\* C19: a payload that fails validation rejects with the validator's ValiError
\* as thrown; a fault whose response has status 429 rejects with a new
\* TooManyRequestsError; any other fault rejects with that same fault; and one
\* HTTP request is made in every case. This holds for each call, whatever
\* other call is made or answered while it awaits its reply.
C19_Classification ==
    output.fn = "getAutoCompleteResults" =>
        \A i \in 1..Len(output.calls) :
            LET reply == input.calls[i].reply
                call == output.calls[i]
            IN  /\ Len(call.requests) = 1
                /\ call.requests[1].url[2] = encodeURIComponent(input.calls[i].address)
                /\ (call.kind # "pending" /\ reply.ok /\ ~parseResponse(reply.data).ok) =>
                      /\ call.kind = "rejected"
                      /\ call.error.name = "ValiError"
                      /\ call.error = parseResponse(reply.data).error
                /\ (call.kind # "pending" /\ ~reply.ok
                        /\ reply.error.response = Response(429)) =>
                      /\ call.kind = "rejected"
                      /\ call.error = NewTooManyRequestsError
                /\ (call.kind # "pending" /\ ~reply.ok
                        /\ reply.error.response # Response(429)) =>
                      /\ call.kind = "rejected"
                      /\ call.error = reply.error

\* a second call was made and rejected for the rate limit while the first was
\* awaiting its reply, and the first is then rejected with the fault it got
C19_Witness ==
    /\ output.fn = "getAutoCompleteResults"
    /\ Len(output.calls) = 2
    /\ output.calls[2].kind = "rejected"
    /\ output.calls[2].error = NewTooManyRequestsError
    /\ ~input.calls[1].reply.ok
    /\ input.calls[1].reply.error.response = Response(500)
    /\ output.calls[1].kind = "rejected"
    /\ output.calls[1].error.name = "AxiosError"

\* the result built for one record of the payload
C20_Carries(result, record) ==
    /\ result.placeId = record.id
    /\ result.countryCode = record.address.countryCode
    /\ result.country = record.address.country
    /\ result.freeformAddress = record.address.freeformAddress
    /\ result.streetNumber = record.address.streetNumber
    /\ result.municipality = record.address.municipality
    /\ ~record.address.streetNumber.set => ~result.streetNumber.set
    /\ ~record.address.municipality.set => ~result.municipality.set

\* C20: a successful lookup returns one result per record of the payload, in
\* the payload's order, each with the record's id and address fields; a
\* streetNumber or municipality the record lacks is undefined in the result,
\* never an empty string.
C20_ResultMapping ==
    /\ output.fn = "getAutoCompleteResults" =>
          \A i \in 1..Len(output.calls) :
              output.calls[i].kind = "resolved" =>
                  LET results == output.calls[i].results
                      records == input.calls[i].reply.data.results
                  IN  /\ Len(results) = Len(records)
                      /\ \A j \in 1..Len(results) : C20_Carries(results[j], records[j])
    /\ output.fn = "toAutoCompleteResult" => C20_Carries(output.result, input.result)

C20_Witness ==
    /\ output.fn = "getAutoCompleteResults"
    /\ output.calls[1].kind = "resolved"
    /\ Len(output.calls[1].results) = 2
    /\ output.calls[1].results[1].placeId = "test2"
    /\ output.calls[1].results[2].placeId = "test1"
    /\ ~output.calls[1].results[1].streetNumber.set
    /\ output.calls[1].results[2].streetNumber = Str("")
    /\ ~output.calls[1].results[2].municipality.set

\* ----------------------------------------------------------------- C21
\* no request has caused more than 2 axios.get calls, a request not yet
\* submitted has caused none, and the calls made so far are at most twice the
\* autoComplete() calls made so far
C21_CallBound ==
    /\ \A r \in Req : calls[r] <= 2
    /\ \A r \in Req : r > nextId => calls[r] = 0
    /\ TotalCalls <= 2 * nextId

\* C21: retry amplification is bounded in every execution, sustained 429
\* answers included: at most 2 underlying calls per submitted request, hence
\* at most twice as many calls as submissions.
C21_BoundedRetries == []C21_CallBound

C21_Witness ==
    /\ nextId = MaxReq
    /\ \A r \in Req : resp[r] = <<"status429", "status429">>
    /\ TotalCalls = 2 * nextId
    /\ \A r \in Req : fut[r] = TooManyRequestsError

\* ----------------------------------------------------------------- C22
\* a timer has fired and re-issued the requests of its queue
DrainDone == \E r \in Req : waveOf[r] # 0

\* when the timer fires the queue is unset, whatever calls are in flight then
C22_FireStep ==
    \A h \in timers :
        timerCallback(h) =>
            /\ queue' = Unset
            /\ \A r \in QueueReqs(queue) : Call(r, address[r], "drain") \in inflight'

\* an autoComplete() made while re-issued calls are in flight and no queue is
\* set is issued at once
C22_SubmitStep ==
    \A a \in Addresses :
        (queue = Unset /\ nextId' # nextId /\ InDrainFlight # {} /\ autoComplete(a))
            => /\ Call(nextId', a, "run") \in inflight'
               /\ calls'[nextId'] = 1
               /\ via'[nextId'] = "run"
               /\ queue' = Unset
               /\ timers' = timers

\* the 429 answer to r's first call makes a queue of r alone and starts a timer
C22_Fresh(r) ==
    /\ queue' = Queue(<<[address |-> address[r], req |-> r]>>)
    /\ timeout' = timeout + 1
    /\ timers' = timers \cup {timeout'}

\* C22 as stated: the cycle repeats, and after a drain every 429 answer to a
\* request run in Idle makes a fresh queue of that request alone with a new
\* timer.
C22_Original ==
    [][/\ C22_FireStep
       /\ C22_SubmitStep
       /\ \A r \in Req : (First429(r) /\ DrainDone) => C22_Fresh(r)]_vars

\* after a drain, the 429 answer to a request run in Idle makes a fresh queue
\* with a new timer when no queue is set at that moment; when one is set,
\* the request is appended to it and no timer is started
C22_FreshStep ==
    \A r \in Req :
        (First429(r) /\ DrainDone) =>
            IF queue = Unset
               THEN C22_Fresh(r)
               ELSE /\ queue' = Queue(Append(queue.items, [address |-> address[r], req |-> r]))
                    /\ timeout' = timeout
                    /\ timers' = timers

\* C22 amended: the Idle/Draining cycle repeats. The firing timer leaves the
\* client Idle while the re-issued calls are in flight, a submit arriving then
\* is issued at once, and the 429 answer to a request run in Idle creates a
\* fresh queue and timer only if no queue is set when it arrives: otherwise
\* the request joins the queue that is set.
C22_Amended == [][C22_FireStep /\ C22_SubmitStep /\ C22_FreshStep]_vars

C22_Witness ==
    /\ via[1] = "run" /\ via[2] = "queue" /\ via[3] = "run"
    /\ waveOf[1] = 1 /\ waveOf[2] = 1
    /\ InDrainFlight # {}
    /\ resp[3] = <<"status429">>
    /\ queue = Queue(<<[address |-> address[3], req |-> 3]>>)
    /\ timeout = 2
    /\ timers = {2}

\* ----------------------------------------------------------------- C23
\* when the timer fires with a queue set, the i-th call made is the call of
\* the i-th request of the queue, so of two queued requests the one queued
\* first is dispatched first
C23_FireStep ==
    \A h \in timers :
        (timerCallback(h) /\ queue # Unset) =>
            /\ Len(dispatched') = Len(queue.items)
            /\ \A i \in 1..Len(queue.items) : dispatched'[i] = queue.items[i].req
            /\ \A i, j \in 1..Len(queue.items) :
                  (i < j) => \E m, n \in 1..Len(dispatched') :
                                /\ m < n
                                /\ dispatched'[m] = queue.items[i].req
                                /\ dispatched'[n] = queue.items[j].req

\* the calls of the latest drain were made for distinct requests, which that
\* drain re-issued
C23_DispatchState ==
    /\ \A m, n \in 1..Len(dispatched) : m # n => dispatched[m] # dispatched[n]
    /\ \A m \in 1..Len(dispatched) : waveOf[dispatched[m]] # 0

\* C23: when the timer fires, the re-issued calls are dispatched in queue
\* order.
C23_DispatchOrder == [](C23_DispatchState) /\ [][C23_FireStep]_vars

C23_Witness ==
    /\ dispatched = <<2, 1, 3>>
    /\ via[1] = "run" /\ via[2] = "run" /\ via[3] = "queue"
    /\ queue = Unset
    /\ Cardinality(InDrainFlight) = 3

\* ----------------------------------------------------------------- C24
\* C24: in every reachable state the queue, when set, is not empty and holds
\* no request whose promise is already resolved or rejected.
C24_QueueClean ==
    queue # Unset =>
        /\ Len(queue.items) > 0
        /\ \A r \in QueueReqs(queue) : fut[r] = Pending

\* ----------------------------------------------------------------- C25
\* the client in the executions where dispose() is never called
NextNoDispose ==
    \/ \E a \in Addresses : autoComplete(a)
    \/ \E c \in inflight, raw \in RawOutcomes : runAutoCompleteResponse(c, raw)
    \/ \E h \in timers : timerCallback(h)
    \/ \E c \in inflight, raw \in RawOutcomes : drainResponse(c, raw)

SpecNoDispose == Init /\ [][NextNoDispose]_vars /\ Fairness

\* without dispose() a queue is set exactly while its timer is pending, the
\* timers that are no longer pending have fired, and every request queued for
\* a timer that has fired was re-issued by that firing
C25_PeriodState ==
    /\ queue # Unset <=> timers = {timeout}
    /\ queue = Unset <=> timers = {}
    /\ \A h \in 1..timeout : h \notin timers => Fired(h)
    /\ \A r \in Req :
          /\ (enq[r] # 0 /\ enq[r] \notin timers) => waveOf[r] = enq[r]
          /\ (enq[r] # 0 /\ enq[r] \in timers) => (waveOf[r] = 0 /\ r \in QueueReqs(queue))

\* a timer fires once: its firing unsets the queue, re-issues every request
\* of the queue, and the handle is never pending again
C25_FireStep ==
    \A h \in timers :
        timerCallback(h) =>
            /\ h = timeout
            /\ queue # Unset
            /\ queue' = Unset
            /\ timers' = {}
            /\ \A r \in QueueReqs(queue) :
                  /\ Call(r, address[r], "drain") \in inflight'
                  /\ waveOf'[r] = h

\* a handle that is not pending and not newly created stays not pending
C25_NoRefire ==
    \A h \in 1..timeout : h \notin timers => h \notin timers'

\* C25: when dispose() is never called, Draining always leads back to Idle;
\* the pending timer fires exactly once per Draining period and its firing
\* leaves the queue unset with every request of it dispatched.
C25_DrainingEnds ==
    /\ [](C25_PeriodState)
    /\ [][C25_FireStep /\ C25_NoRefire]_vars
    /\ (Draining ~> Idle)

C25_Witness ==
    /\ timeout = 2
    /\ Fired(1) /\ Fired(2)
    /\ Idle
    /\ timers = {}
    /\ \A r \in Req : waveOf[r] # 0

\* ----------------------------------------------------------------- C26
\* (the req field of a queued request and of a call stands for what
\* createQueuedRequest bundles with the address: the caller's options and the
\* promise with its resolve and reject)
\* every call in flight is made with the address of the request it belongs
\* to and there is one call at most per request; a settled promise holds the
\* outcome of a call made for its own request, so a resolved one holds the
\* results for its own address
C26_OwnCallState ==
    /\ \A c \in inflight : c.address = address[c.req]
    /\ \A c, d \in inflight : c.req = d.req => c = d
    /\ \A r \in Req :
          /\ fut[r].kind = "resolved" => (fut[r].val = address[r] /\ fut[r] = LastOutcome(r))
          /\ (fut[r].kind = "rejected" /\ fut[r] # ClearingQueue) => fut[r] = LastOutcome(r)

\* an answer to a call made for r changes no promise but r's, and the answer
\* to r's re-issued call settles r's pending promise with the outcome for r's
\* own address
C26_DeliverStep ==
    \A r \in Req :
        resp'[r] # resp[r] =>
            /\ \A x \in Req : x # r => fut'[x] = fut[x]
            /\ (waveOf[r] # 0 /\ fut[r] = Pending) =>
                  fut'[r] = getAutoCompleteResults(address[r], resp'[r][Len(resp'[r])])

\* C26: every re-issued call uses the address and options of its own request
\* and its outcome goes to that request's promise only, in whatever order the
\* answers of a drain wave arrive.
C26_OwnOutcome == [](C26_OwnCallState) /\ [][C26_DeliverStep]_vars

C26_Witness ==
    /\ Len(dispatched) >= 2
    /\ dispatched[1] \in InDrainFlight
    /\ address[dispatched[1]] # address[dispatched[2]]
    /\ waveOf[dispatched[1]] = waveOf[dispatched[2]]
    /\ Answered(dispatched[2])
    /\ fut[dispatched[2]].kind = "resolved"
    /\ fut[dispatched[2]].val = address[dispatched[2]]

\* ----------------------------------------------------------------- C27
\* the timer h was cancelled by dispose(): it is not pending and the queue it
\* was started for is still set
Cancelled(h) == h \in 1..timeout /\ h \notin timers /\ queue # Unset /\ timeout = h

\* a request pushed onto the queue has caused no call while its timer is
\* pending or cancelled, and exactly one, made by the firing of that timer,
\* once the timer has fired
C27_QueuedCalls ==
    \A r \in Req :
        via[r] = "queue" =>
            /\ enq[r] \in 1..timeout
            /\ calls[r] = (IF Fired(enq[r]) THEN 1 ELSE 0)
            /\ (calls[r] = 1) <=> (waveOf[r] = enq[r])
            /\ (enq[r] \in timers \/ Cancelled(enq[r])) => (calls[r] = 0 /\ waveOf[r] = 0)

\* a dispose() that changes anything on a set queue cancels its timer and
\* makes no call, and a cancelled timer (it can only be the one in #timeout)
\* stays cancelled, so its requests never get a call
C27_CancelStep ==
    /\ (queue # Unset /\ (timers' # timers \/ fut' # fut) /\ dispose) =>
          /\ timers' = {}
          /\ calls' = calls
          /\ inflight' = inflight
    /\ Cancelled(timeout) => (Cancelled(timeout))'

\* C27: a request submitted while the client is Draining causes exactly one
\* underlying call, the one dispatched when the timer fires, and none at all
\* when dispose() cancels the timer first.
C27_OneCallWhenQueued == [](C27_QueuedCalls) /\ [][C27_CancelStep]_vars

C27_Witness ==
    \E r1, r2 \in Req :
        /\ r1 # r2
        /\ via[r1] = "queue" /\ via[r2] = "queue"
        /\ calls[r1] = 1 /\ calls[r2] = 1
        /\ Answered(r1) /\ Answered(r2)
        /\ fut[r1] = TooManyRequestsError
        /\ fut[r2].kind = "resolved"
====
